---- MODULE Spec2Model ----
(***************************************************************************)
(* Temporary-artifact lifecycle of image_preprocessor.py: the four         *)
(* preprocessing entry points, the multi-method candidate generator and   *)
(* cleanup_temp_files, over a small file system.                           *)
(*                                                                         *)
(* Paths are sequences of one-character strings, so that os.path.basename, *)
(* os.path.splitext and the f-string naming templates are computed as the  *)
(* code computes them.                                                     *)
(***************************************************************************)
EXTENDS Integers, Sequences, FiniteSets, TLC

\* ------------------------------------------------------------------ paths

\* Index of the last occurrence of character c in p, 0 when there is none.
RECURSIVE LastIndexOf(_, _, _)
LastIndexOf(p, c, i) ==
    IF i = 0 THEN 0
    ELSE IF p[i] = c THEN i
    ELSE LastIndexOf(p, c, i - 1)

\* os.path.basename (POSIX): everything after the last "/".
basename(p) ==
    SubSeq(p, LastIndexOf(p, "/", Len(p)) + 1, Len(p))

\* TRUE when some character of b before position i is not a dot.
HasNonDotBefore(b, i) ==
    \E j \in 1..(i - 1) : b[j] # "."

\* os.path.splitext(b)[0] for a name without separators: the extension
\* starts at the last dot, unless only dots precede it (leading dots belong
\* to the root).
splitext_root(b) ==
    LET d == LastIndexOf(b, ".", Len(b))
    IN  IF d > 0 /\ HasNonDotBefore(b, d) THEN SubSeq(b, 1, d - 1) ELSE b

\* base_name = os.path.splitext(os.path.basename(image_path))[0]
base_name(p) ==
    splitext_root(basename(p))

\* String literals of the naming templates.
StrTemp ==
    <<"t", "e", "m", "p", "_">>

StrMilitary ==
    <<"t", "e", "m", "p", "_", "m", "i", "l", "i", "t", "a", "r", "y", "_", "p", "r", "o", "c", "e", "s", "s", "e", "d", "_">>

StrMessaging ==
    <<"t", "e", "m", "p", "_", "m", "e", "s", "s", "a", "g", "i", "n", "g", "_", "p", "r", "o", "c", "e", "s", "s", "e", "d", "_">>

StrEnhanced ==
    <<"t", "e", "m", "p", "_", "e", "n", "h", "a", "n", "c", "e", "d", "_">>

StrOcrPng ==
    <<"_", "o", "c", "r", ".", "p", "n", "g">>

StrConservativePng ==
    <<"_", "c", "o", "n", "s", "e", "r", "v", "a", "t", "i", "v", "e", ".", "p", "n", "g">>

StrExtremePng ==
    <<"_", "e", "x", "t", "r", "e", "m", "e", ".", "p", "n", "g">>

StrPng ==
    <<".", "p", "n", "g">>

StrMethod1Png ==
    <<"_", "m", "e", "t", "h", "o", "d", "1", ".", "p", "n", "g">>

StrMethod2Png ==
    <<"_", "m", "e", "t", "h", "o", "d", "2", ".", "p", "n", "g">>

StrMethod3Png ==
    <<"_", "m", "e", "t", "h", "o", "d", "3", ".", "p", "n", "g">>

\* temp_path = f"temp_military_processed_{base_name}_ocr.png"
TempMilitary(p) ==
    StrMilitary \o base_name(p) \o StrOcrPng

\* temp_path = f"temp_messaging_processed_{base_name}_ocr.png"
TempMessaging(p) ==
    StrMessaging \o base_name(p) \o StrOcrPng

\* A conservative temp name built without the "temp_" prefix and the method
\* suffix.
TempConservativeBare(p) ==
    base_name(p) \o StrPng

\* temp3 = f"temp_{base_name}_conservative.png"
TempConservative(p) ==
    StrTemp \o base_name(p) \o StrConservativePng

\* temp4 = f"temp_{base_name}_extreme.png"
TempExtreme(p) ==
    StrTemp \o base_name(p) \o StrExtremePng

\* temp_path = f"temp_enhanced_{base_name}.png"
TempEnhanced(p) ==
    StrEnhanced \o base_name(p) \o StrPng

\* The sibling names cleanup_temp_files sweeps, in the order of its list.
MethodFiles(p) ==
    << StrTemp \o base_name(p) \o StrMethod1Png,
       StrTemp \o base_name(p) \o StrMethod2Png,
       StrTemp \o base_name(p) \o StrMethod3Png >>

\* ----------------------------------------------------------------- inputs

\* The source images of the batch: a screenshot in a subdirectory, and a
\* file of the working directory whose name is the conservative temp name
\* of the first.
NameA ==
    <<"d", "/", "a", ".", "p", "n", "g">>
NameT ==
    <<"t", "e", "m", "p", "_", "a", "_", "c", "o", "n", "s", "e", "r", "v", "a", "t", "i", "v", "e", ".", "p", "n", "g">>

SourceNames ==
    <<NameA, NameT>>

SeqRange(q) ==
    {q[i] : i \in 1..Len(q)}

\* Every name of the model's file system derived from the source p.
NamesOf(p) ==
    <<TempMilitary(p), TempMessaging(p), TempConservative(p), TempExtreme(p),
      TempEnhanced(p)>> \o MethodFiles(p)

\* The table of the file system's paths: the sources, then every name
\* derived from them. A path is held in the state as the index of its first
\* occurrence in this table, so two paths are the same index exactly when
\* they are the same string.
PathList ==
    SourceNames \o NamesOf(NameA) \o NamesOf(NameT)

Id(name) ==
    CHOOSE i \in 1..Len(PathList) :
        /\ PathList[i] = name
        /\ \A j \in 1..(i - 1) : PathList[j] # name

AllPaths ==
    {Id(PathList[i]) : i \in 1..Len(PathList)}

Sources ==
    {Id(SourceNames[i]) : i \in 1..Len(SourceNames)}

SrcA ==
    Id(NameA)
SrcT ==
    Id(NameT)

\* The index that stands for "no path": one past the table.
NoPath ==
    Len(PathList) + 1

\* The naming templates and the sweep list, per source.
temp_military ==
    [s \in Sources |-> Id(TempMilitary(PathList[s]))]
temp_messaging ==
    [s \in Sources |-> Id(TempMessaging(PathList[s]))]
temp_conservative ==
    [s \in Sources |-> Id(TempConservative(PathList[s]))]
temp_extreme ==
    [s \in Sources |-> Id(TempExtreme(PathList[s]))]
temp_enhanced ==
    [s \in Sources |-> Id(TempEnhanced(PathList[s]))]
method_files ==
    [s \in Sources |-> [i \in 1..3 |-> Id(MethodFiles(PathList[s])[i])]]

\* Every temp path the pipeline derives from the stem of s.
PipelineTemps(s) ==
    {temp_military[s], temp_messaging[s], temp_conservative[s],
     temp_extreme[s], temp_enhanced[s]}

\* The four temp paths preprocess_with_multiple_methods writes for s.
MultiTemps(s) ==
    {temp_military[s], temp_messaging[s], temp_conservative[s], temp_extreme[s]}

\* What a source file can hold before the first call: the screenshot may be
\* missing, undecodable, all black or a normal image.
SourceKinds ==
    [s \in Sources |->
        IF s = SrcA THEN {"absent", "corrupt", "blank", "image"}
        ELSE {"absent", "image"}]

\* What a written temp artifact holds: a binary image with or without
\* foreground pixels.
ArtKinds ==
    {"art", "artblank"}

\* Files other tools may have left in the working directory under the
\* sibling names cleanup_temp_files sweeps.
StaleNames ==
    {method_files[SrcA][1], method_files[SrcA][2]}

\* How many calls of the module's functions a run makes.
MaxOps ==
    2

\* Where a pipeline can fail by itself: nowhere, or by an exception in a
\* statement of its try block (decode or transform).
Steps ==
    {"ok", "raise"}

\* ------------------------------------------------------------ file system

VARIABLES
    fs,        \* path -> what the file holds ("absent" when there is none)
    orig,      \* what each source held before the first call
    readonly,  \* the working directory does not allow creating or removing files
    pending,   \* the latest generator call: its source, the candidate paths
               \* it returned and the files it wrote
    protocol,  \* every cleanup so far was cleanup(candidate of s, s)
    last,      \* the latest call: arguments, result and effects
    ops,       \* calls made so far
    stage,     \* the latest application of a pure stage (naming, deskew,
               \* pixel transform) with its inputs and results
    workers    \* the four candidate pipelines of one source run as workers

vars ==
    <<fs, orig, readonly, pending, protocol, last, ops, stage, workers>>

\* The state of the file-level calls, and the state of the stage-level and
\* worker-level runs, which the file-level calls do not touch.
calls ==
    <<orig, pending, protocol, last, ops>>
others ==
    <<stage, workers>>

exists(f, p) ==
    f[p] # "absent"

\* cv2.imread(path) followed by the foreground test of the deskew step:
\* "none" when imread returns None, "blank" when the image decodes but has
\* no pixel above zero, "image" otherwise.
Load(f, p) ==
    IF f[p] \in {"absent", "corrupt"} THEN "none"
    ELSE IF f[p] \in {"blank", "artblank"} THEN "blank"
    ELSE "image"

\* What a written artifact is recorded as. Only source paths are ever read
\* back, so elsewhere the two artifact kinds are not told apart.
Written(p, k) ==
    IF p \in Sources THEN k ELSE "art"

\* The kinds a call on source s can leave in a file that is read back.
KindsAt(s) ==
    IF PipelineTemps(s) \cap Sources # {} THEN ArtKinds ELSE {"art"}

\* Whether a file can be opened for writing at p: an existing file is
\* overwritten, a new one needs a writable directory.
CanWrite(f, ro, p) ==
    exists(f, p) \/ ~ro

\* The result of one pipeline: the file system after it, the path it
\* returns, the files it wrote and how it ended ("ok"; "silent": the write
\* failed without an exception; "failed": the source path was returned).
Result(f, path, wrote, out) ==
    [fs |-> f, path |-> path, wrote |-> wrote, out |-> out]

\* cv2.imwrite(temp, image) and the return that follows it: imwrite returns
\* False when the file cannot be opened; the code ignores the value, so the
\* temp path is returned all the same.
imwrite_return(f, ro, temp, k) ==
    IF CanWrite(f, ro, temp)
    THEN Result([f EXCEPT ![temp] = Written(temp, k)], temp, {temp}, "ok")
    ELSE Result(f, temp, {}, "silent")

\* def preprocess_image_for_ocr(image_path)
preprocess_image_for_ocr(f, ro, p, c, k) ==
    IF Load(f, p) = "none" THEN Result(f, p, {}, "failed")
    ELSE IF Load(f, p) = "blank" THEN Result(f, p, {}, "failed")
    ELSE IF c = "raise" THEN Result(f, p, {}, "failed")
    ELSE imwrite_return(f, ro, temp_military[p], k)

\* A messaging pipeline that saves its image before the transforms are
\* through, and returns image_path when one of them raises afterwards.
preprocess_messaging_save_first(f, ro, p, c, k) ==
    IF Load(f, p) = "none" THEN Result(f, p, {}, "failed")
    ELSE IF c = "raise"
    THEN Result(imwrite_return(f, ro, temp_messaging[p], k).fs, p,
                imwrite_return(f, ro, temp_messaging[p], k).wrote, "failed")
    ELSE imwrite_return(f, ro, temp_messaging[p], k)

\* def preprocess_messaging_app_screenshot(image_path)
preprocess_messaging_app_screenshot(f, ro, p, c, k) ==
    IF Load(f, p) = "none" THEN Result(f, p, {}, "failed")
    ELSE IF c = "raise" THEN Result(f, p, {}, "failed")
    ELSE imwrite_return(f, ro, temp_messaging[p], k)

\* def enhance_image_contrast(image_path): Image.open raises on a missing
\* or undecodable file, Image.save raises when the file cannot be opened.
enhance_image_contrast(f, ro, p, c, k) ==
    IF Load(f, p) = "none" THEN Result(f, p, {}, "failed")
    ELSE IF c = "raise" THEN Result(f, p, {}, "failed")
    ELSE IF ~CanWrite(f, ro, temp_enhanced[p]) THEN Result(f, p, {}, "failed")
    ELSE Result([f EXCEPT ![temp_enhanced[p]] = Written(temp_enhanced[p], k)],
                temp_enhanced[p], {temp_enhanced[p]}, "ok")

\* Method 3 of the generator (conservative), inline in its try block: it
\* runs only when the generator's own cv2.imread returned an image, and an
\* exception in it leaves the block ("raised").
conservative_method(f, ro, p, img, c, k) ==
    IF img = "none" THEN Result(f, NoPath, {}, "skipped")
    ELSE IF c = "raise" THEN Result(f, NoPath, {}, "raised")
    ELSE imwrite_return(f, ro, temp_conservative[p], k)

\* Method 4 of the generator (extreme enhancement), inline in the same try
\* block, on the image method 3 loaded.
extreme_method(f, ro, p, img, c, k) ==
    IF img = "none" THEN Result(f, NoPath, {}, "skipped")
    ELSE IF c = "raise" THEN Result(f, NoPath, {}, "raised")
    ELSE imwrite_return(f, ro, temp_extreme[p], k)

\* The generator's progress: the file system, the list "methods", the
\* files written, how each method ended, the image loaded for methods 3 and
\* 4, and whether an exception has left the try block.
GenStart(f) ==
    [fs |-> f, methods |-> << >>, wrote |-> {}, outs |-> << >>,
     img |-> "none", raised |-> FALSE]

\* A list kept newest-first: methods.insert(0, (name, tempN)).
InsertReturned(g, name, r) ==
    [fs |-> r.fs, methods |-> << <<name, r.path>> >> \o g.methods,
     wrote |-> g.wrote \cup r.wrote, outs |-> Append(g.outs, r.out),
     img |-> g.img, raised |-> g.raised]

\* tempN = <function>(image_path); methods.append((name, tempN)): methods 1
\* and 2 always return a path, which is always appended.
AppendReturned(g, name, r) ==
    [fs |-> r.fs, methods |-> Append(g.methods, <<name, r.path>>),
     wrote |-> g.wrote \cup r.wrote, outs |-> Append(g.outs, r.out),
     img |-> g.img, raised |-> g.raised]

\* An inline method: its (name, temp) is appended when it got to its
\* methods.append; an exception in it leaves the try block.
AppendInline(g, name, r) ==
    [fs |-> r.fs,
     methods |-> IF r.out \in {"ok", "silent"}
                 THEN Append(g.methods, <<name, r.path>>) ELSE g.methods,
     wrote |-> g.wrote \cup r.wrote, outs |-> Append(g.outs, r.out),
     img |-> g.img, raised |-> r.out = "raised"]

\* Method 1: temp1 = preprocess_image_for_ocr(image_path)
run_military(g, ro, p, c, k) ==
    AppendReturned(g, "military_grade",
                   preprocess_image_for_ocr(g.fs, ro, p, c, k))

\* Method 2: temp2 = preprocess_messaging_app_screenshot(image_path)
run_messaging(g, ro, p, c, k) ==
    AppendReturned(g, "messaging_specialized",
                   preprocess_messaging_app_screenshot(g.fs, ro, p, c, k))

\* img = cv2.imread(image_path), once, for methods 3 and 4.
run_imread(g, p) ==
    [g EXCEPT !.img = Load(g.fs, p)]

\* Method 3, on the image just loaded.
run_conservative(g, ro, p, c, k) ==
    AppendInline(g, "conservative",
                 conservative_method(g.fs, ro, p, g.img, c, k))

\* Method 4, reached only when method 3 did not raise.
run_extreme(g, ro, p, c, k) ==
    IF g.raised
    THEN [g EXCEPT !.outs = Append(g.outs, "notrun")]
    ELSE AppendInline(g, "extreme_enhancement",
                      extreme_method(g.fs, ro, p, g.img, c, k))

\* A generator without its handler: the exception leaves the call and
\* nothing is returned.
multi_no_except(p, methods) ==
    [ret |-> << >>, escaped |-> TRUE]

\* A handler that returns the list built so far.
multi_except_partial(p, methods) ==
    [ret |-> methods, escaped |-> FALSE]

\* The generator's "except Exception" handler: the list built so far is
\* dropped and the single ('original', image_path) entry is returned.
multi_except(p, methods) ==
    [ret |-> << <<"original", p>> >>, escaped |-> FALSE]

\* "return methods", or the handler when an exception left the try block.
multi_return(g, p) ==
    [fs |-> g.fs,
     ret |-> IF g.raised THEN multi_except(p, g.methods).ret ELSE g.methods,
     escaped |-> IF g.raised THEN multi_except(p, g.methods).escaped ELSE FALSE,
     wrote |-> g.wrote,
     outs |-> g.outs]

\* def preprocess_with_multiple_methods(image_path); c is the tuple of the
\* four methods' failure points.
preprocess_with_multiple_methods(f, ro, p, c, k) ==
    multi_return(
        run_extreme(
            run_conservative(
                run_imread(
                    run_messaging(
                        run_military(GenStart(f), ro, p, c[1], k),
                        ro, p, c[2], k),
                    p),
                ro, p, c[3], k),
            ro, p, c[4], k),
        p)

\* os.remove(p): raises PermissionError in a read-only directory, and
\* FileNotFoundError when p is the path v that another process deleted
\* after the os.path.exists test.
os_remove(f, ro, p, v) ==
    IF p = v THEN [fs |-> [f EXCEPT ![p] = "absent"], raised |-> TRUE]
    ELSE IF ro THEN [fs |-> f, raised |-> TRUE]
    ELSE [fs |-> [f EXCEPT ![p] = "absent"], raised |-> FALSE]

\* The sibling sweep of cleanup_temp_files from the i-th name on, with the
\* files removed so far: each name that exists is removed, and the first
\* failing removal ends the loop.
RECURSIVE sweep(_, _, _, _, _, _)
sweep(f, ro, files, i, v, deleted) ==
    IF i > Len(files) THEN [fs |-> f, deleted |-> deleted, raised |-> FALSE]
    ELSE IF ~exists(f, files[i]) THEN sweep(f, ro, files, i + 1, v, deleted)
    ELSE IF os_remove(f, ro, files[i], v).raised
    THEN [fs |-> os_remove(f, ro, files[i], v).fs, deleted |-> deleted,
          raised |-> TRUE]
    ELSE sweep(os_remove(f, ro, files[i], v).fs, ro, files, i + 1, v,
               deleted \cup {files[i]})

\* A cleanup without its handler: the exception of a failed removal leaves
\* the call.
cleanup_no_except(raised) ==
    [warned |-> FALSE, escaped |-> raised]

\* cleanup_temp_files' "except Exception" handler: a warning is printed and
\* the call returns.
cleanup_except(raised) ==
    [warned |-> raised, escaped |-> FALSE]

\* A body without the temp_path != original_path test.
cleanup_body_unguarded(f, ro, temp_path, original_path, v) ==
    IF exists(f, temp_path)
    THEN LET r == os_remove(f, ro, temp_path, v)
         IN  IF r.raised
             THEN [fs |-> r.fs, deleted |-> {}, raised |-> TRUE]
             ELSE sweep(r.fs, ro, method_files[original_path], 1, v,
                        {temp_path})
    ELSE [fs |-> f, deleted |-> {}, raised |-> FALSE]

\* A body that returns right after removing the temp file and sweeps the
\* siblings only when it did not.
cleanup_body_early_return(f, ro, temp_path, original_path, v) ==
    IF temp_path # original_path /\ exists(f, temp_path)
    THEN LET r == os_remove(f, ro, temp_path, v)
         IN  IF r.raised
             THEN [fs |-> r.fs, deleted |-> {}, raised |-> TRUE]
             ELSE [fs |-> r.fs, deleted |-> {temp_path}, raised |-> FALSE]
    ELSE sweep(f, ro, method_files[original_path], 1, v, {})

\* A body that sweeps the siblings also when removing the temp file failed.
cleanup_body_sweep_anyway(f, ro, temp_path, original_path, v) ==
    IF temp_path # original_path /\ exists(f, temp_path)
    THEN LET r == os_remove(f, ro, temp_path, v)
         IN  IF r.raised
             THEN [fs |-> sweep(r.fs, ro, method_files[original_path], 1, v,
                                {}).fs,
                   deleted |-> sweep(r.fs, ro, method_files[original_path], 1,
                                     v, {}).deleted,
                   raised |-> TRUE]
             ELSE sweep(r.fs, ro, method_files[original_path], 1, v,
                        {temp_path})
    ELSE [fs |-> f, deleted |-> {}, raised |-> FALSE]

\* The guarded body of cleanup_temp_files: the temp file is removed, then
\* the siblings are swept.
cleanup_body(f, ro, temp_path, original_path, v) ==
    IF temp_path # original_path /\ exists(f, temp_path)
    THEN LET r == os_remove(f, ro, temp_path, v)
         IN  IF r.raised
             THEN [fs |-> r.fs, deleted |-> {}, raised |-> TRUE]
             ELSE sweep(r.fs, ro, method_files[original_path], 1, v,
                        {temp_path})
    ELSE [fs |-> f, deleted |-> {}, raised |-> FALSE]

\* def cleanup_temp_files(temp_path, original_path)
cleanup_temp_files(f, ro, temp_path, original_path, v) ==
    LET b == cleanup_body(f, ro, temp_path, original_path, v)
        h == cleanup_except(b.raised)
    IN  [fs |-> b.fs, deleted |-> b.deleted, warned |-> h.warned,
         escaped |-> h.escaped]

\* ------------------------------------------------------------- the calls

\* The record of one call.
Call(op, src, arg, ret, wrote, outs, deleted, warned, escaped, existed, again) ==
    [op |-> op, src |-> src, arg |-> arg, ret |-> ret, wrote |-> wrote,
     outs |-> outs, deleted |-> deleted, warned |-> warned,
     escaped |-> escaped, existed |-> existed, again |-> again]

Idle ==
    Call("none", NoPath, NoPath, << >>, {}, << >>, {}, FALSE, FALSE, FALSE, FALSE)

\* No stage applied yet; no worker run started.
NoStage ==
    [op |-> "none"]
NoWorkers ==
    [src |-> NoPath]

\* The call record of a function that returns one path.
Single(op, name, s, r) ==
    Call(op, s, NoPath, << <<name, r.path>> >>, r.wrote, <<r.out>>, {},
         FALSE, FALSE, FALSE, FALSE)

Paths(ret) ==
    {ret[i][2] : i \in 1..Len(ret)}

\* The paths a caller passes to cleanup for source s: s itself (a fallback
\* candidate) and the temp paths of s.
CleanupArgs(s) ==
    {s} \cup PipelineTemps(s)

Init ==
    /\ orig \in [Sources -> {"absent", "corrupt", "blank", "image"}]
    /\ \A s \in Sources : orig[s] \in SourceKinds[s]
    /\ \E stale \in {{}, StaleNames} :
          fs = [p \in AllPaths |->
                   IF p \in Sources THEN orig[p]
                   ELSE IF p \in stale THEN "image" ELSE "absent"]
    /\ readonly = FALSE
    /\ pending = [src |-> NoPath, paths |-> {}, wrote |-> {}]
    /\ protocol = TRUE
    /\ last = Idle
    /\ ops = 0
    /\ stage = NoStage
    /\ workers = NoWorkers

PreprocessOcr(s, c, k) ==
    /\ ops < MaxOps
    /\ LET r == preprocess_image_for_ocr(fs, readonly, s, c, k)
       IN  /\ fs' = r.fs
           /\ last' = Single("ocr", "military_grade", s, r)
    /\ ops' = ops + 1
    /\ UNCHANGED <<orig, readonly, pending, protocol>>
    /\ UNCHANGED others

PreprocessMessaging(s, c, k) ==
    /\ ops < MaxOps
    /\ LET r == preprocess_messaging_app_screenshot(fs, readonly, s, c, k)
       IN  /\ fs' = r.fs
           /\ last' = Single("messaging", "messaging_specialized", s, r)
    /\ ops' = ops + 1
    /\ UNCHANGED <<orig, readonly, pending, protocol>>
    /\ UNCHANGED others

EnhanceContrast(s, c, k) ==
    /\ ops < MaxOps
    /\ LET r == enhance_image_contrast(fs, readonly, s, c, k)
       IN  /\ fs' = r.fs
           /\ last' = Single("enhance", "enhanced", s, r)
    /\ ops' = ops + 1
    /\ UNCHANGED <<orig, readonly, pending, protocol>>
    /\ UNCHANGED others

PreprocessMulti(s, c, k) ==
    /\ ops < MaxOps
    /\ LET r == preprocess_with_multiple_methods(fs, readonly, s, c, k)
       IN  /\ fs' = r.fs
           /\ last' = Call("multi", s, NoPath, r.ret, r.wrote, r.outs, {},
                           FALSE, r.escaped, FALSE, FALSE)
           /\ pending' = [src |-> s, paths |-> Paths(r.ret), wrote |-> r.wrote]
    /\ ops' = ops + 1
    /\ UNCHANGED <<orig, readonly, protocol>>
    /\ UNCHANGED others

\* The files cleanup_temp_files(t, s) may find and remove.
Removable(t, s) ==
    {p \in {t} \cup SeqRange(method_files[s]) : exists(fs, p)}

\* cleanup_temp_files(t, s), with v the path (if any) that another process
\* deletes while the call runs.
Cleanup(t, s, v) ==
    /\ ops < MaxOps
    /\ LET r == cleanup_temp_files(fs, readonly, t, s, v)
       IN  /\ fs' = r.fs
           /\ last' = Call("cleanup", s, t, << >>, {}, << >>, r.deleted,
                           r.warned, r.escaped, exists(fs, t),
                           last.op = "cleanup" /\ last.arg = t /\ last.src = s)
    /\ protocol' = (protocol /\ s = pending.src /\ t \in pending.paths)
    /\ ops' = ops + 1
    /\ UNCHANGED <<orig, readonly, pending>>
    /\ UNCHANGED others

\* The environment changes the permissions of the working directory.
Chmod ==
    /\ readonly' = ~readonly
    /\ last' = Idle
    /\ UNCHANGED <<fs, orig, pending, protocol, ops>>
    /\ UNCHANGED others

Next ==
    \/ \E s \in Sources, c \in Steps :
          \E k \in KindsAt(s) : PreprocessOcr(s, c, k)
    \/ \E s \in Sources, c \in Steps :
          \E k \in KindsAt(s) : PreprocessMessaging(s, c, k)
    \/ \E s \in Sources, c \in Steps :
          \E k \in KindsAt(s) : EnhanceContrast(s, c, k)
    \/ \E s \in Sources, c \in Steps \X Steps \X Steps \X Steps :
          \E k \in KindsAt(s) : PreprocessMulti(s, c, k)
    \/ \E s \in Sources : \E t \in CleanupArgs(s) :
          \E v \in {NoPath} \cup Removable(t, s) : Cleanup(t, s, v)
    \/ Chmod

Spec ==
    Init /\ [][Next]_vars

\* ------------------------------------------------------- the naming stage

\* The five naming templates, by the tag of the function or method that
\* uses each.
Templates ==
    {"military", "messaging", "conservative", "extreme", "enhanced"}

\* The temp path template m gives for the source path p.
TempFor(m, p) ==
    CASE m = "military" -> TempMilitary(p)
      [] m = "messaging" -> TempMessaging(p)
      [] m = "conservative" -> TempConservative(p)
      [] m = "extreme" -> TempExtreme(p)
      [] m = "enhanced" -> TempEnhanced(p)

\* Source paths of a batch whose stems are pairwise different, next to the
\* two sources of the file-level model.
NameY ==
    <<"y", ".", "p", "n", "g">>
NameEnhancedY ==
    <<"s", "c", "a", "n", "s", "/", "e", "n", "h", "a", "n", "c", "e", "d", "_", "y", ".", "p", "n", "g">>
NameYConservative ==
    <<"y", "_", "c", "o", "n", "s", "e", "r", "v", "a", "t", "i", "v", "e", ".", "j", "p", "g">>
NameYExtreme ==
    <<"y", "_", "e", "x", "t", "r", "e", "m", "e", ".", "p", "n", "g">>

NamingSources ==
    {NameA, NameT, NameY, NameEnhancedY, NameYConservative, NameYExtreme}

\* One use of a template: the method tag, the source path, its stem and the
\* temp path computed from it.
Naming(m, p) ==
    [method |-> m, source |-> p, stem |-> base_name(p), temp |-> TempFor(m, p)]

\* The file-level and worker-level state while stages are applied alone.
CallsIdle ==
    /\ fs = [p \in AllPaths |-> "absent"]
    /\ orig = [s \in Sources |-> "absent"]
    /\ readonly = FALSE
    /\ pending = [src |-> NoPath, paths |-> {}, wrote |-> {}]
    /\ protocol = TRUE
    /\ last = Idle
    /\ ops = 0

NamingInit ==
    /\ CallsIdle
    /\ stage = NoStage
    /\ workers = NoWorkers

\* A pipeline names its temp artifact for source p.
NameFirst(m, p) ==
    /\ stage.op = "none"
    /\ stage' = [op |-> "named", first |-> Naming(m, p)]
    /\ UNCHANGED <<fs, readonly, calls, workers>>

\* Another pipeline, of the same or of another source of the batch, names
\* its temp artifact.
NameSecond(m, p) ==
    /\ stage.op = "named"
    /\ stage' = [op |-> "named2", first |-> stage.first, second |-> Naming(m, p)]
    /\ UNCHANGED <<fs, readonly, calls, workers>>

NamingNext ==
    \/ \E m \in Templates, p \in NamingSources : NameFirst(m, p)
    \/ \E m \in Templates, p \in NamingSources : NameSecond(m, p)

NamingSpec ==
    NamingInit /\ [][NamingNext]_vars

\* --------------------------------------------------------- raster images

\* A single-channel 8-bit image: w columns, h rows, and the intensity of
\* each pixel <<x, y>>, x counted from the left and y from the top.
Grid(im) ==
    (1..im.w) \X (1..im.h)

\* The pixel array is held as a table of its values (merging with the empty
\* function changes none of them).
RasterImage(w, h, px) ==
    [w |-> w, h |-> h, px |-> px @@ << >>]

\* An image of one intensity.
Uniform(w, h, v) ==
    RasterImage(w, h, [p \in (1..w) \X (1..h) |-> v])

\* An image of intensity bg with a solid rectangle of intensity fg, bw
\* columns by bh rows, whose top-left pixel is <<x0, y0>>.
WithRect(w, h, bg, x0, y0, bw, bh, fg) ==
    RasterImage(w, h,
        [p \in (1..w) \X (1..h) |->
            IF /\ p[1] \in x0..(x0 + bw - 1)
               /\ p[2] \in y0..(y0 + bh - 1)
            THEN fg ELSE bg])

Min(S) ==
    CHOOSE m \in S : \A x \in S : m <= x
Max(S) ==
    CHOOSE m \in S : \A x \in S : m >= x

\* The brightest value of an 8-bit image.
White ==
    255

\* A threshold that keeps the source intensity of the pixels above thresh
\* (THRESH_TOZERO) instead of setting them to maxval.
threshold_tozero(src, thresh, maxval, type) ==
    RasterImage(src.w, src.h,
        [p \in Grid(src) |->
            IF type = "THRESH_BINARY"
            THEN (IF src.px[p] > thresh THEN src.px[p] ELSE 0)
            ELSE (IF src.px[p] > thresh THEN 0 ELSE src.px[p])])

\* cv2.threshold(src, thresh, maxval, type) for THRESH_BINARY and
\* THRESH_BINARY_INV.
threshold(src, thresh, maxval, type) ==
    RasterImage(src.w, src.h,
        [p \in Grid(src) |->
            IF type = "THRESH_BINARY"
            THEN (IF src.px[p] > thresh THEN maxval ELSE 0)
            ELSE (IF src.px[p] > thresh THEN 0 ELSE maxval)])

\* The intensities of an image, and the pixels at or below intensity t.
Levels(src) ==
    {src.px[p] : p \in Grid(src)}
AtOrBelow(src, t) ==
    {p \in Grid(src) : src.px[p] <= t}

RECURSIVE SumPx(_, _)
SumPx(src, S) ==
    IF S = {} THEN 0
    ELSE LET p == CHOOSE q \in S : TRUE
         IN  src.px[p] + SumPx(src, S \ {p})

\* Otsu's between-class variance of the split at t, as a fraction
\* num / den: with n1, n2 the sizes and s1, s2 the intensity sums of the
\* classes, (s1*n2 - s2*n1)^2 / (n1*n2) up to the constant factor 1/N^2.
OtsuScore(src, t) ==
    LET c1 == AtOrBelow(src, t)
        c2 == Grid(src) \ c1
        d == SumPx(src, c1) * Cardinality(c2) - SumPx(src, c2) * Cardinality(c1)
    IN  [num |-> d * d, den |-> Cardinality(c1) * Cardinality(c2)]

\* The threshold THRESH_OTSU computes: the smallest t of maximal
\* between-class variance, 0 when no t splits the image in two classes.
\* Only the intensities present (but the largest) change the split.
otsu(src) ==
    LET cands == Levels(src) \ {Max(Levels(src))}
    IN  IF cands = {} THEN 0
        ELSE CHOOSE t \in cands :
                \A u \in cands \ {t} :
                    LET a == OtsuScore(src, t)
                        b == OtsuScore(src, u)
                    IN  \/ a.num * b.den > b.num * a.den
                        \/ (a.num * b.den = b.num * a.den /\ t < u)

\* The offsets of a kw-by-kh rectangular structuring element from its
\* anchor, the element's centre (kw \div 2, kh \div 2).
Offsets(kw, kh) ==
    ((-(kw \div 2))..(kw - 1 - (kw \div 2)))
        \X ((-(kh \div 2))..(kh - 1 - (kh \div 2)))

\* The pixels of the image under the element anchored at p; pixels the
\* element covers outside the image do not take part (OpenCV's default
\* border for morphology).
Under(im, p, kw, kh) ==
    {<<p[1] + o[1], p[2] + o[2]>> : o \in Offsets(kw, kh)} \cap Grid(im)

\* cv2.erode / cv2.dilate with a kw-by-kh rectangle of ones.
erode(im, kw, kh) ==
    RasterImage(im.w, im.h,
        [p \in Grid(im) |-> Min({im.px[q] : q \in Under(im, p, kw, kh)})])
dilate(im, kw, kh) ==
    RasterImage(im.w, im.h,
        [p \in Grid(im) |-> Max({im.px[q] : q \in Under(im, p, kw, kh)})])

\* cv2.morphologyEx(im, cv2.MORPH_OPEN / cv2.MORPH_CLOSE, kernel)
morph_open(im, kw, kh) ==
    dilate(erode(im, kw, kh), kw, kh)
morph_close(im, kw, kh) ==
    erode(dilate(im, kw, kh), kw, kh)

\* Bitwise OR of two 8-bit values.
RECURSIVE BitOr(_, _)
BitOr(a, b) ==
    IF a = 0 THEN b
    ELSE IF b = 0 THEN a
    ELSE (IF a % 2 = 1 \/ b % 2 = 1 THEN 1 ELSE 0)
         + 2 * BitOr(a \div 2, b \div 2)

\* A combination that keeps a bit only where both images have it; on values
\* 0 and 255 it is the smaller of the two.
bitwise_and(a, b) ==
    RasterImage(a.w, a.h, [p \in Grid(a) |-> Min({a.px[p], b.px[p]})])

\* cv2.bitwise_or(a, b)
bitwise_or(a, b) ==
    RasterImage(a.w, a.h, [p \in Grid(a) |-> BitOr(a.px[p], b.px[p])])

\* cv2.subtract(a, b): saturating at 0.
subtract(a, b) ==
    RasterImage(a.w, a.h,
        [p \in Grid(a) |-> IF a.px[p] > b.px[p] THEN a.px[p] - b.px[p] ELSE 0])

\* -------------------------------------------------------- the deskew stage

\* Angles are whole numbers of ticks; Ticks ticks make one degree.
Ticks ==
    2

Deg(n) ==
    n * Ticks

Abs(x) ==
    IF x < 0 THEN -x ELSE x

\* The last component of cv2.minAreaRect(coords): [-90, 0) in the builds
\* before OpenCV 4.5.1, (0, 90] since.
RawAngles ==
    Deg(-90)..Deg(90)

\* The sides an image of the deskew stage can have, in pixels.
MaxSide ==
    2

\* img.shape[:2] of the loaded images: (height, width).
Shapes ==
    (1..MaxSide) \X (1..MaxSide)

\* if angle < -45: angle = -(90 + angle) else: angle = -angle
skew_angle(raw) ==
    IF raw < Deg(-45) THEN -(Deg(90) + raw) ELSE -raw

\* A test that also rotates at exactly one degree.
significant_or_equal(angle) ==
    Abs(angle) >= Deg(1)

\* if abs(angle) > 1
significant(angle) ==
    Abs(angle) > Deg(1)

\* The shape of cv2.warpAffine(src, M, dsize): dsize is (width, height), the
\* result has dsize[1] rows and dsize[0] columns.
warp_shape(dsize) ==
    <<dsize[2], dsize[1]>>

\* Lines 29-42 on the shape of the image: the angle, whether the rotation
\* is applied, the dsize handed to warpAffine and the shape of "rotated".
deskew_plan(raw, shape) ==
    LET angle == skew_angle(raw)
        h == shape[1]
        w == shape[2]
    IN  [angle |-> angle,
         rotate |-> significant(angle),
         dsize |-> <<w, h>>,
         shape |-> IF significant(angle) THEN warp_shape(<<w, h>>) ELSE shape]

DeskewInit ==
    /\ CallsIdle
    /\ stage = NoStage
    /\ workers = NoWorkers

\* The deskew step of preprocess_image_for_ocr on an image of the given
\* shape whose content makes the estimator return raw.
Deskew(raw, shape) ==
    /\ stage.op = "none"
    /\ stage' = [op |-> "deskew", raw |-> raw, gray |-> shape,
                 plan |-> deskew_plan(raw, shape)]
    /\ UNCHANGED <<fs, readonly, calls, workers>>

DeskewNext ==
    \E raw \in RawAngles, shape \in Shapes : Deskew(raw, shape)

DeskewSpec ==
    DeskewInit /\ [][DeskewNext]_vars

\* ---------------------------------------------- the pixel-level pipelines

\* Whether an angle is a whole number of quarter turns, and its cosine and
\* sine then.
QuarterTurn(angle) ==
    angle % Deg(90) = 0
Cos(angle) ==
    <<1, 0, -1, 0>>[((angle \div Deg(90)) % 4) + 1]
Sin(angle) ==
    <<0, 1, 0, -1>>[((angle \div Deg(90)) % 4) + 1]

Clamp(v, lo, hi) ==
    IF v < lo THEN lo ELSE IF v > hi THEN hi ELSE v

\* M = cv2.getRotationMatrix2D((w // 2, h // 2), angle, 1.0) and
\* cv2.warpAffine(src, M, dsize, flags=INTER_CUBIC,
\* borderMode=BORDER_REPLICATE): the pixel <<x, y>> of the result is the
\* source sampled at the inverse of M, coordinates clamped to the image.
\* For a quarter turn the sample points are pixel centres and cubic
\* interpolation returns the pixel itself; for any other angle the values
\* are interpolated, and the model does not compute them.
warpAffine(src, angle, dsize) ==
    LET cx == src.w \div 2
        cy == src.h \div 2
        a == Cos(angle)
        b == Sin(angle)
    IN  RasterImage(dsize[1], dsize[2],
           [p \in (1..dsize[1]) \X (1..dsize[2]) |->
               IF QuarterTurn(angle)
               THEN src.px[<<
                       Clamp(1 + cx + a * (p[1] - 1 - cx) - b * (p[2] - 1 - cy),
                             1, src.w),
                       Clamp(1 + cy + b * (p[1] - 1 - cx) + a * (p[2] - 1 - cy),
                             1, src.h)>>]
               ELSE "interpolated"])

\* Lines 29-42 on the pixels: "rotated".
deskew(gray, raw) ==
    IF deskew_plan(raw, <<gray.h, gray.w>>).rotate
    THEN warpAffine(gray, deskew_plan(raw, <<gray.h, gray.w>>).angle,
                    deskew_plan(raw, <<gray.h, gray.w>>).dsize)
    ELSE gray

\* coords = np.column_stack(np.where(gray > 0))
coords(gray) ==
    {p \in Grid(gray) : gray.px[p] > 0}

\* The non-zero pixels of a binary image, and its 8-connected regions.
Foreground(im) ==
    {p \in Grid(im) : im.px[p] # 0}

\* The pixels of S and their eight neighbours.
Around(S) ==
    {<<p[1] + d[1], p[2] + d[2]>> : p \in S, d \in (-1..1) \X (-1..1)}

RECURSIVE Grow(_, _)
Grow(fg, S) ==
    LET T == Around(S) \cap fg
    IN  IF T = S THEN S ELSE Grow(fg, T)

Regions(im) ==
    {Grow(Foreground(im), {p}) : p \in Foreground(im)}

\* The corners of the bounding rectangle of a region.
Box(R) ==
    [x0 |-> Min({p[1] : p \in R}), x1 |-> Max({p[1] : p \in R}),
     y0 |-> Min({p[2] : p \in R}), y1 |-> Max({p[2] : p \in R})]

\* Whether the outer border of a region is its bounding rectangle: every
\* pixel of the rectangle's perimeter belongs to the region.
OuterIsBox(R) ==
    \A x \in Box(R).x0..Box(R).x1, y \in Box(R).y0..Box(R).y1 :
        (x \in {Box(R).x0, Box(R).x1} \/ y \in {Box(R).y0, Box(R).y1})
            => <<x, y>> \in R

\* cv2.findContours(processed, RETR_EXTERNAL, CHAIN_APPROX_SIMPLE): one
\* contour per region, the vertices of its outer border through the centres
\* of its border pixels. The model computes it for regions whose outer
\* border is their bounding rectangle: the rectangle's four corners.
findContours(im) ==
    {<< <<Box(R).x0, Box(R).y0>>, <<Box(R).x0, Box(R).y1>>,
        <<Box(R).x1, Box(R).y1>>, <<Box(R).x1, Box(R).y0>> >> :
        R \in Regions(im)}

\* Twice cv2.contourArea(contour): the absolute value of the shoelace sum
\* over the contour's vertices.
RECURSIVE Shoelace(_, _)
Shoelace(c, i) ==
    IF i > Len(c) THEN 0
    ELSE LET j == IF i = Len(c) THEN 1 ELSE i + 1
         IN  c[i][1] * c[j][2] - c[j][1] * c[i][2] + Shoelace(c, i + 1)

contourArea2(c) ==
    Abs(Shoelace(c, 1))

\* The pixels cv2.fillPoly(im, [contour], 0) sets, for a rectangular
\* contour: the rectangle with its border.
InsidePoly(c, p) ==
    /\ Min({c[i][1] : i \in 1..Len(c)}) <= p[1]
    /\ p[1] <= Max({c[i][1] : i \in 1..Len(c)})
    /\ Min({c[i][2] : i \in 1..Len(c)}) <= p[2]
    /\ p[2] <= Max({c[i][2] : i \in 1..Len(c)})

\* The area below which a contour is filled with background.
MinBlobArea ==
    10

\* if area < 10, with area = cv2.contourArea(contour)
small(c) ==
    contourArea2(c) < 2 * MinBlobArea

\* Lines 61-65: every contour of small area is filled with 0.
remove_small_blobs(processed) ==
    LET contours == findContours(processed)
    IN  RasterImage(processed.w, processed.h,
            [p \in Grid(processed) |->
                IF \E c \in contours : small(c) /\ InsidePoly(c, p)
                THEN 0 ELSE processed.px[p]])

\* No image: what a call that returns early hands to cv2.imwrite.
NoImage ==
    [w |-> 0, h |-> 0, px |-> << >>]

\* Lines 44-57 of preprocess_image_for_ocr: the deskewed image binarised
\* with Otsu's threshold, inverted, and closed with a 3x3 element.
ocr_binarize(gray, raw) ==
    threshold(deskew(gray, raw), otsu(deskew(gray, raw)), White,
              "THRESH_BINARY_INV")

ocr_closed(gray, raw) ==
    morph_close(ocr_binarize(gray, raw), 3, 3)

\* A transform that goes on to the deskew step without testing for
\* content.
ocr_transform_unchecked(gray, raw) ==
    [returns |-> "temp_path",
     rotated |-> deskew_plan(raw, <<gray.h, gray.w>>).rotate,
     binary |-> gray,
     written |-> gray]

\* The transform of preprocess_image_for_ocr (lines 21-72) on the pixels of
\* the loaded image: what the call returns, whether the rotation was
\* applied, the closed binary image and the image handed to cv2.imwrite.
ocr_transform(gray, raw) ==
    IF coords(gray) = {}
    THEN [returns |-> "image_path", rotated |-> FALSE, binary |-> NoImage,
          written |-> NoImage]
    ELSE [returns |-> "temp_path",
          rotated |-> deskew_plan(raw, <<gray.h, gray.w>>).rotate,
          binary |-> ocr_closed(gray, raw),
          written |-> remove_small_blobs(ocr_closed(gray, raw))]

\* cv2.adaptiveThreshold(src, 255, ADAPTIVE_THRESH_GAUSSIAN_C,
\* THRESH_BINARY, blockSize, C), with blur the Gaussian-weighted mean of
\* each pixel's neighbourhood.
adaptiveThreshold(src, maxval, blur, C) ==
    RasterImage(src.w, src.h,
        [p \in Grid(src) |-> IF src.px[p] > blur.px[p] - C THEN maxval ELSE 0])

\* A weighted mean of a k-by-k neighbourhood (Gaussian blur, bilateral
\* filter) lies between the neighbourhood's darkest and brightest pixel;
\* the weights are floating-point, and the model takes either extreme.
MeanBounds(src, k) ==
    {erode(src, k, k), dilate(src, k, k)}

\* Lines 98-106 of preprocess_messaging_app_screenshot.
binary1(enhanced) ==
    threshold(enhanced, otsu(enhanced), White, "THRESH_BINARY")
binary2(enhanced, blur) ==
    adaptiveThreshold(enhanced, White, blur, 2)
combined(enhanced, blur) ==
    bitwise_or(binary1(enhanced), binary2(enhanced, blur))

\* Lines 110-115: opening with a 2x2 element, then closing with a 5x5.
opened_closed(im) ==
    morph_close(morph_open(im, 2, 2), 5, 5)

\* The length of the line-detecting structuring elements.
LineLength ==
    25

\* Lines 119-123: the horizontal and the vertical line mask.
horizontal_lines(processed) ==
    morph_open(processed, LineLength, 1)
vertical_lines(processed) ==
    morph_open(processed, 1, LineLength)

\* A line removal that subtracts the horizontal mask only.
remove_horizontal_lines(processed) ==
    subtract(processed, horizontal_lines(processed))

\* A line removal that looks for vertical lines in what is left after the
\* horizontal ones were subtracted.
remove_lines_in_turn(processed) ==
    subtract(subtract(processed, horizontal_lines(processed)),
             vertical_lines(subtract(processed, horizontal_lines(processed))))

\* Lines 126-127: both masks subtracted.
remove_lines(processed) ==
    subtract(subtract(processed, horizontal_lines(processed)),
             vertical_lines(processed))

\* The transform of preprocess_messaging_app_screenshot from the enhanced
\* image on (lines 98-132); fastNlMeansDenoising and CLAHE, before it, are
\* floating-point filters whose result is the model's input.
messaging_transform(enhanced, blur) ==
    [returns |-> "temp_path",
     rotated |-> FALSE,
     binary |-> opened_closed(combined(enhanced, blur)),
     written |-> remove_lines(opened_closed(combined(enhanced, blur)))]

\* Method 3 of the generator (lines 162-165).
conservative_transform(gray) ==
    [returns |-> "temp_path", rotated |-> FALSE,
     binary |-> threshold(gray, 127, White, "THRESH_BINARY"),
     written |-> threshold(gray, 127, White, "THRESH_BINARY")]

\* cv2.convertScaleAbs(gray, alpha=2.5, beta=50): 2.5 * v + 50, rounded to
\* the nearest integer (halves to the even one) and saturated at 255.
ScaleAbs(v) ==
    LET twice == 5 * v + 100
        q == twice \div 2
        r == IF twice % 2 = 0 \/ q % 2 = 0 THEN q ELSE q + 1
    IN  IF r > White THEN White ELSE r

convertScaleAbs(gray) ==
    RasterImage(gray.w, gray.h, [p \in Grid(gray) |-> ScaleAbs(gray.px[p])])

\* Method 4 of the generator from the denoised image on (lines 179-184).
extreme_transform(denoised) ==
    [returns |-> "temp_path", rotated |-> FALSE,
     binary |-> threshold(denoised, otsu(denoised), White, "THRESH_BINARY"),
     written |-> morph_close(threshold(denoised, otsu(denoised), White,
                                       "THRESH_BINARY"), 7, 7)]

\* --------------------------------------------------- the transform stage

\* The images the transforms are applied to. Blobs: a dark rectangle on a
\* light page, Margin pixels from the edge.
MaxBlobW ==
    6
MaxBlobH ==
    4
Margin ==
    2

BlobImages ==
    {WithRect(MaxBlobW + 2 * Margin, MaxBlobH + 2 * Margin, White,
              Margin + 1, Margin + 1, bw, bh, 0) :
        bw \in 1..MaxBlobW, bh \in 1..MaxBlobH}

PageImages ==
    {Uniform(MaxBlobW + 2 * Margin, MaxBlobH + 2 * Margin, v) : v \in {0, White}}

\* One row of pixels of several intensities, on both sides of every
\* threshold of the code.
TinyW ==
    3
Palette ==
    {0, 100, 127, 128, White}
TinyImages ==
    {RasterImage(TinyW, 1, px) : px \in [(1..TinyW) \X {1} -> Palette]}

GrayImages ==
    BlobImages \cup PageImages \cup TinyImages

\* Strokes: a light bar two pixels thick on a dark screen, along a row or
\* along a column, Pad pixels from the edge or starting on it.
MaxRun ==
    26
Pad ==
    4
RunLengths ==
    {5, 13} \cup ((LineLength - 1)..MaxRun)

StrokeImages ==
    {WithRect(MaxRun + 2 * Pad, 2 + 2 * Pad, 0, x0, Pad + 1, len, 2, White) :
        x0 \in {1, Pad + 1}, len \in RunLengths}
    \cup
    {WithRect(2 + 2 * Pad, MaxRun + 2 * Pad, 0, Pad + 1, y0, 2, len, White) :
        y0 \in {1, Pad + 1}, len \in RunLengths}

\* Shades: one row with a bright pixel, a pixel of middle intensity next
\* to it, and a dark rest that reaches beyond the bright pixel's
\* neighbourhood.
ShadeW ==
    8
ShadeImages ==
    {RasterImage(ShadeW, 1,
        [p \in (1..ShadeW) \X {1} |->
            IF p[1] = 1 THEN White ELSE IF p[1] = 2 THEN v ELSE 0]) :
        v \in {100, 128}}

\* Crossing rulings: a light bar along a row and one along a column, each
\* two pixels thick and MaxRun long, that cross in the middle of a dark
\* screen.
CrossImages ==
    LET n == MaxRun + 2 * Pad
        bar == (Pad + 1)..(Pad + MaxRun)
        mid == {n \div 2, (n \div 2) + 1}
    IN  {RasterImage(n, n,
            [p \in (1..n) \X (1..n) |->
                IF \/ (p[1] \in bar /\ p[2] \in mid)
                   \/ (p[1] \in mid /\ p[2] \in bar)
                THEN White ELSE 0])}

\* Specks: one row with a dash of two light pixels and, one pixel further,
\* a single light pixel.
SpeckImages ==
    {RasterImage(ShadeW - 1, 1,
        [p \in (1..(ShadeW - 1)) \X {1} |->
            IF p[1] \in {2, 3, 5} THEN White ELSE 0])}

EnhancedImages ==
    StrokeImages \cup ShadeImages \cup CrossImages \cup SpeckImages

\* The angles of cv2.minAreaRect for which the model computes the rotated
\* pixels: those that need no rotation and those that give a quarter turn.
ComputableRaws ==
    {raw \in RawAngles :
        \/ ~significant(skew_angle(raw))
        \/ QuarterTurn(skew_angle(raw))}

\* What a source file holding the image is to cv2.imread and the
\* foreground test.
Content(gray) ==
    IF coords(gray) = {} THEN "blank" ELSE "image"

ImageInit ==
    /\ CallsIdle
    /\ stage = NoStage
    /\ workers = NoWorkers

\* preprocess_image_for_ocr on a source file that holds the image gray,
\* with raw the angle cv2.minAreaRect reports for it.
OcrTransform(gray, raw) ==
    /\ stage.op = "none"
    /\ stage' = [op |-> "ocr", input |-> gray, raw |-> raw,
                 out |-> ocr_transform(gray, raw),
                 call |-> preprocess_image_for_ocr(
                              [fs EXCEPT ![SrcA] = Content(gray)],
                              readonly, SrcA, "ok", "art")]
    /\ UNCHANGED <<fs, readonly, calls, workers>>

\* preprocess_messaging_app_screenshot from the enhanced image on, with
\* blur the local mean the adaptive threshold compares against.
MessagingTransform(enhanced, blur) ==
    /\ stage.op = "none"
    /\ stage' = [op |-> "messaging", input |-> enhanced, raw |-> 0,
                 blur |-> blur,
                 out |-> messaging_transform(enhanced, blur)]
    /\ UNCHANGED <<fs, readonly, calls, workers>>

\* Method 3 of the generator on the grayscale image.
ConservativeTransform(gray) ==
    /\ stage.op = "none"
    /\ stage' = [op |-> "conservative", input |-> gray, raw |-> 0,
                 out |-> conservative_transform(gray)]
    /\ UNCHANGED <<fs, readonly, calls, workers>>

\* Method 4 of the generator: convertScaleAbs, then the bilateral filter,
\* whose result lies within the bounds of a weighted mean (and is the
\* image itself where the image is flat), then the threshold and closing.
ExtremeTransform(gray, denoised) ==
    /\ stage.op = "none"
    /\ stage' = [op |-> "extreme", input |-> gray, raw |-> 0,
                 out |-> extreme_transform(denoised)]
    /\ UNCHANGED <<fs, readonly, calls, workers>>

ImageNext ==
    \/ \E gray \in GrayImages, raw \in ComputableRaws : OcrTransform(gray, raw)
    \/ \E enhanced \in EnhancedImages :
          \E blur \in MeanBounds(enhanced, 11) :
              MessagingTransform(enhanced, blur)
    \/ \E gray \in GrayImages : ConservativeTransform(gray)
    \/ \E gray \in GrayImages :
          \E denoised \in MeanBounds(convertScaleAbs(gray), 15)
                              \cup {convertScaleAbs(gray)} :
              ExtremeTransform(gray, denoised)

ImageSpec ==
    ImageInit /\ [][ImageNext]_vars

\* ------------------------------------------------------------- the claims

Producing ==
    {"ocr", "messaging", "enhance", "multi"}

\* The generator's methods in generation order: the name each appends and
\* the temp path each writes for source s.
MethodNames ==
    <<"military_grade", "messaging_specialized", "conservative",
      "extreme_enhancement">>

MethodTemp(i, s) ==
    <<temp_military[s], temp_messaging[s], temp_conservative[s],
      temp_extreme[s]>>[i]

\* ------------------------------------------- the pipelines run as workers

\* One worker per method of preprocess_with_multiple_methods, each running
\* its method's statements; a worker's imread and its imwrite are separate
\* steps, and the steps of different workers interleave freely.
Methods ==
    1..Len(MethodNames)

\* Whether worker i goes on to its imwrite after loading img: method 1
\* returns early on an image without content, methods 1 and 2 on a failed
\* load, methods 3 and 4 are skipped by "if img is not None"; c is the
\* method's failure point.
reaches_imwrite(i, img, c) ==
    /\ c = "ok"
    /\ IF i = 1 THEN img = "image" ELSE img # "none"

\* How worker i ends when it does not reach its imwrite: methods 1 and 2
\* return image_path; an inline method is skipped on a failed load and
\* raises otherwise.
ends_early(i, img, p) ==
    IF i \in {1, 2} THEN [out |-> "failed", path |-> p]
    ELSE IF img = "none" THEN [out |-> "skipped", path |-> NoPath]
    ELSE [out |-> "raised", path |-> NoPath]

\* The candidate list assembled from the workers' results as the generator
\* assembles it: in generation order, an inline method's entry only when it
\* got to its append, and the handler's list when an inline method raised.
assembled(p, out, path) ==
    LET methods ==
            << <<MethodNames[1], path[1]>>, <<MethodNames[2], path[2]>> >>
            \o (IF out[3] \in {"ok", "silent"}
                THEN << <<MethodNames[3], path[3]>> >> ELSE << >>)
            \o (IF out[4] \in {"ok", "silent"}
                THEN << <<MethodNames[4], path[4]>> >> ELSE << >>)
    IN  IF "raised" \in {out[3], out[4]}
        THEN multi_except(p, methods).ret ELSE methods

WorkersInit ==
    /\ orig \in [Sources -> {"absent", "corrupt", "blank", "image"}]
    /\ \A s \in Sources : orig[s] \in SourceKinds[s]
    /\ fs = [p \in AllPaths |-> IF p \in Sources THEN orig[p] ELSE "absent"]
    /\ readonly \in BOOLEAN
    /\ pending = [src |-> NoPath, paths |-> {}, wrote |-> {}]
    /\ protocol = TRUE
    /\ last = Idle
    /\ ops = 0
    /\ stage = NoStage
    /\ \E s \in Sources, c \in Steps \X Steps \X Steps \X Steps :
          \E k \in KindsAt(s) :
             workers = [src |-> s, c |-> c, k |-> k, fs0 |-> fs,
                        pc |-> [i \in Methods |-> "imread"],
                        img |-> [i \in Methods |-> "none"],
                        from |-> [i \in Methods |-> 0],
                        out |-> [i \in Methods |-> "running"],
                        path |-> [i \in Methods |-> NoPath]]

\* Every method calling cv2.imread for itself.
own_image(i) ==
    i

\* The method whose cv2.imread produced the image object method i works
\* on: methods 1 and 2 load it inside their functions (lines 16, 85) and
\* method 3 at line 160; method 4 has no imread and tests and converts the
\* img of method 3 (lines 169-170).
image_source(i) ==
    IF i = 4 THEN 3 ELSE i

\* Worker i gets its image: from its own cv2.imread, or, once that method
\* has loaded it, the image object of the method it takes it from.
WorkerImread(i) ==
    /\ workers.pc[i] = "imread"
    /\ image_source(i) # i => workers.pc[image_source(i)] # "imread"
    /\ LET img == IF image_source(i) = i THEN Load(fs, workers.src)
                  ELSE workers.img[image_source(i)]
           e == ends_early(i, img, workers.src)
       IN  workers' =
              IF reaches_imwrite(i, img, workers.c[i])
              THEN [workers EXCEPT !.pc[i] = "imwrite", !.img[i] = img,
                                   !.from[i] = image_source(i)]
              ELSE [workers EXCEPT !.pc[i] = "done", !.img[i] = img,
                                   !.from[i] = image_source(i),
                                   !.out[i] = e.out, !.path[i] = e.path]
    /\ UNCHANGED <<fs, readonly, calls, stage>>

\* Worker i writes its temp artifact.
WorkerImwrite(i) ==
    /\ workers.pc[i] = "imwrite"
    /\ LET r == imwrite_return(fs, readonly, MethodTemp(i, workers.src),
                               workers.k)
       IN  /\ fs' = r.fs
           /\ workers' = [workers EXCEPT !.pc[i] = "done", !.out[i] = r.out,
                                         !.path[i] = r.path]
    /\ UNCHANGED <<readonly, calls, stage>>

WorkersNext ==
    \/ \E i \in Methods : WorkerImread(i)
    \/ \E i \in Methods : WorkerImwrite(i)

WorkersSpec ==
    WorkersInit /\ [][WorkersNext]_vars

\* The candidates of the methods that, in the latest generator call, ran to
\* the end with their temp artifact written.
Succeeded ==
    {<<MethodNames[i], MethodTemp(i, last.src)>> :
        i \in {j \in 1..4 : last.outs[j] = "ok"}}

\* No method of the latest generator call got to a candidate of its own:
\* methods 1 and 2 returned the source path; methods 3 and 4 were skipped
\* on a load failure, raised, or were not reached.
AllFailed ==
    /\ last.outs[1] = "failed"
    /\ last.outs[2] = "failed"
    /\ last.outs[3] \in {"skipped", "raised"}
    /\ last.outs[4] \in {"skipped", "raised", "notrun"}

\* C1: preprocess_with_multiple_methods never raises and always returns a
\* non-empty sequence of (method-name, path) candidates, whatever the state
\* of the source and whichever methods fail.
C1_NeverRaisesNonEmpty ==
    last.op = "multi" =>
        /\ ~last.escaped
        /\ Len(last.ret) >= 1
        /\ \A i \in 1..Len(last.ret) :
              Len(last.ret[i]) = 2 /\ last.ret[i][2] \in AllPaths

\* C1 witness: a generator call on a readable source in which methods 1
\* and 2 failed and method 3 raised.
C1_Witness ==
    /\ last.op = "multi"
    /\ last.outs = <<"failed", "failed", "raised", "notrun">>
    /\ Load(fs, last.src) = "image"

\* C2 (as claimed): every method of the generator that succeeded has its
\* candidate in the returned sequence, whichever other method failed.
C2_SucceededAreReturned ==
    last.op = "multi" => \A c \in Succeeded : c \in SeqRange(last.ret)

\* C3 (as claimed): when all four methods fail, the returned sequence has
\* exactly one entry, whose path is the source path.
C3_SingleOriginalEntry ==
    (last.op = "multi" /\ AllFailed) =>
        Len(last.ret) = 1 /\ last.ret[1][2] = last.src

\* C3 (amended): when all four methods fail, every entry's path is the
\* source path; the sequence is the single ('original', source) entry when
\* method 3 or 4 raised, and the two entries of methods 1 and 2, both with
\* the source path, when the source could not be loaded.
C3_AllEntriesOriginal ==
    (last.op = "multi" /\ AllFailed) =>
        /\ \A i \in 1..Len(last.ret) : last.ret[i][2] = last.src
        /\ IF "raised" \in {last.outs[3], last.outs[4]}
           THEN last.ret = << <<"original", last.src>> >>
           ELSE last.ret = << <<"military_grade", last.src>>,
                              <<"messaging_specialized", last.src>> >>

\* C3 witness: a generator call on a source that cannot be loaded.
C3_Witness ==
    /\ last.op = "multi"
    /\ AllFailed
    /\ last.outs[3] = "skipped"
    /\ Len(last.ret) = 2

\* C4 (as claimed): as long as every cleanup is cleanup(candidate returned
\* for s, s), every source image that was on disk is still on disk.
C4_SourcesSurvive ==
    protocol => \A s \in Sources : orig[s] # "absent" => exists(fs, s)

\* C5: whenever a producing function wrote a temp artifact, the path it
\* returns for it differs from the source path.
C5_TempNotSource ==
    last.op \in Producing =>
        /\ last.src \notin last.wrote
        /\ \A i \in 1..Len(last.ret) :
              last.ret[i][2] \in last.wrote => last.ret[i][2] # last.src

\* C5 witness: the generator wrote all four artifacts for the source whose
\* own name is a temp name.
C5_Witness ==
    /\ last.op = "multi"
    /\ last.src = SrcT
    /\ last.wrote = MultiTemps(SrcT)
    /\ Paths(last.ret) = MultiTemps(SrcT)

\* C6 (as claimed): after cleanup_temp_files(temp, source), an existing
\* temp file is gone if and only if temp is not identical to source.
C6_DeletesIff ==
    (last.op = "cleanup" /\ last.existed) =>
        (~exists(fs, last.arg) <=> last.arg # last.src)

\* C6 (amended): temp is deleted only if it existed and is not identical to
\* source; an existing temp that is not the source is gone after the call
\* unless its removal failed, and then a warning is printed and the call
\* deleted nothing; a call with temp = source deletes nothing.
C6_DeletesOnlyIf ==
    last.op = "cleanup" =>
        /\ last.arg \in last.deleted => (last.existed /\ last.arg # last.src)
        /\ (last.existed /\ last.arg # last.src) =>
              \/ ~exists(fs, last.arg)
              \/ (last.warned /\ last.deleted = {})
        /\ last.arg = last.src =>
              (last.deleted = {} /\ (last.existed => exists(fs, last.src)))

\* C6 witness: a cleanup that removed an existing temp file.
C6_Witness ==
    /\ last.op = "cleanup"
    /\ last.existed
    /\ last.arg # last.src
    /\ last.arg \in last.deleted

\* C7: a second cleanup_temp_files(temp, source) right after the first
\* raises nothing and deletes no file.
C7_SecondCallNoOp ==
    (last.op = "cleanup" /\ last.again) =>
        (last.deleted = {} /\ ~last.escaped)

\* C7 witness: the second of two calls on a temp file that was on disk at
\* the start and is gone now.
C7_Witness ==
    /\ last.op = "cleanup"
    /\ last.again
    /\ last.arg = temp_conservative[SrcA]
    /\ last.src = SrcA
    /\ orig[last.arg] = "image"
    /\ ~exists(fs, last.arg)

\* C8: cleanup_temp_files never raises to its caller; a failed removal is
\* reported as a warning.
C8_CleanupNeverRaises ==
    last.op = "cleanup" => ~last.escaped

\* C8 witness: a cleanup in which a removal failed.
C8_Witness ==
    /\ last.op = "cleanup"
    /\ last.warned
    /\ ~last.escaped

\* C9 (as claimed): after the generator wrote its temp artifacts for s, one
\* successful cleanup_temp_files(c, s) on a produced candidate c leaves none
\* of the other artifacts the generator wrote.
C9_SweepsSiblingArtifacts ==
    (/\ last.op = "cleanup"
     /\ last.src = pending.src
     /\ last.arg \in pending.wrote
     /\ last.arg \in last.deleted
     /\ ~last.warned) =>
        \A p \in pending.wrote \ {last.arg} : ~exists(fs, p)

\* C10 (as claimed): every path a preprocessing function returns is the
\* source path or the path of a temp artifact the call wrote and that is on
\* disk when the call returns.
C10_ReturnedPathsExist ==
    last.op \in Producing =>
        \A i \in 1..Len(last.ret) :
            \/ last.ret[i][2] = last.src
            \/ (last.ret[i][2] \in last.wrote /\ exists(fs, last.ret[i][2]))

\* The functions that run one pipeline and return one path.
SingleStages ==
    {"ocr", "messaging", "enhance"}

\* C11 (as claimed): a single-method stage raises nothing and, whenever a
\* step of it failed, returns the original source path.
C11_StagesFallBackToSource ==
    last.op \in SingleStages =>
        /\ ~last.escaped
        /\ last.outs[1] # "ok" => last.ret[1][2] = last.src

\* The place of a method name in the generation order.
Pos(name) ==
    CHOOSE i \in 1..Len(MethodNames) : MethodNames[i] = name

\* The names of a candidate sequence are method names in strictly
\* increasing generation order.
InGenerationOrder(ret) ==
    /\ \A i \in 1..Len(ret) : ret[i][1] \in SeqRange(MethodNames)
    /\ \A i, j \in 1..Len(ret) : i < j => Pos(ret[i][1]) < Pos(ret[j][1])

\* C13 (as claimed): the names of every returned sequence form a
\* duplicate-free subsequence of (military_grade, messaging_specialized,
\* conservative, extreme_enhancement).
C13_NamesAreMethodSubsequence ==
    last.op = "multi" => InGenerationOrder(last.ret)

\* C13 (amended): every returned sequence is either the single fallback
\* entry ('original', source), or its names form a duplicate-free
\* subsequence of the four method names in generation order.
C13_GenerationOrderOrFallback ==
    last.op = "multi" =>
        \/ last.ret = << <<"original", last.src>> >>
        \/ InGenerationOrder(last.ret)

\* C13 witness: a generator call that returned all four candidates.
C13_Witness ==
    /\ last.op = "multi"
    /\ Len(last.ret) = 4
    /\ last.ret[1][1] = "military_grade"
    /\ last.ret[4][1] = "extreme_enhancement"

\* C14 (as claimed): two uses of the naming templates with different
\* (method, source-stem) pairs never give the same temp path.
C14_NamingCollisionFree ==
    stage.op = "named2" =>
        (<<stage.first.method, stage.first.stem>>
            # <<stage.second.method, stage.second.stem>>
         => stage.first.temp # stage.second.temp)

\* C19 (as claimed): for every raw angle in [-90, 90] degrees the SkewAngle
\* lies in (-45, 45].
C19_SkewAngleInRange ==
    stage.op = "deskew" =>
        (Deg(-45) < stage.plan.angle /\ stage.plan.angle <= Deg(45))

\* C20: the rotation is applied exactly when |SkewAngle| > 1 degree; at
\* exactly 1 and -1 and below, the image is passed on unrotated; rotated
\* or not, the image keeps its height and width.
C20_RotatesIffAboveOneDegree ==
    stage.op = "deskew" =>
        /\ stage.plan.rotate <=> Abs(stage.plan.angle) > Deg(1)
        /\ Abs(stage.plan.angle) <= Deg(1) => ~stage.plan.rotate
        /\ stage.plan.shape = stage.gray

\* C20 witness: a SkewAngle of exactly one degree on an image that is not
\* square.
C20_Witness ==
    /\ stage.op = "deskew"
    /\ Abs(stage.plan.angle) = Deg(1)
    /\ ~stage.plan.rotate
    /\ stage.gray[1] # stage.gray[2]
    /\ stage.plan.shape = stage.gray

\* Every worker has finished.
WorkersDone ==
    \A i \in Methods : workers.pc[i] = "done"

\* The generator run on the same source, from the same file system, with
\* the same failure points.
Sequential ==
    preprocess_with_multiple_methods(workers.fs0, readonly, workers.src,
                                     workers.c, workers.k)

\* C15 (as claimed): however the steps of the four workers interleave, the
\* candidates and the files on disk at the end are those of running the
\* four methods one after another.
C15_ParallelEqualsSequential ==
    WorkersDone =>
        /\ fs = Sequential.fs
        /\ assembled(workers.src, workers.out, workers.path) = Sequential.ret

\* C12: when the grayscale of the source has no pixel above 0,
\* preprocess_image_for_ocr attempts no rotation, hands nothing to
\* cv2.imwrite, writes no file, and returns the source path through its
\* warning return.
C12_BlankImageReturnsSource ==
    (stage.op = "ocr" /\ coords(stage.input) = {}) =>
        /\ ~stage.out.rotated
        /\ stage.out.written = NoImage
        /\ stage.out.returns = "image_path"
        /\ stage.call.path = SrcA
        /\ stage.call.wrote = {}
        /\ stage.call.out = "failed"
        /\ stage.call.fs = [fs EXCEPT ![SrcA] = "blank"]

\* A blank image for which minAreaRect's angle would have asked for a
\* rotation.
C12_Witness ==
    /\ stage.op = "ocr"
    /\ coords(stage.input) = {}
    /\ significant(skew_angle(stage.raw))
    /\ stage.call.path = SrcA

\* The transforms that write a binary image.
Pipelines ==
    {"ocr", "messaging", "conservative", "extreme"}

TwoValued(im) ==
    \A p \in Grid(im) : im.px[p] \in {0, White}

\* C16: every binary image a pipeline writes, and the binary image it
\* holds before its last clean-up step, has all its pixels in {0, 255}.
C16_BinaryOutputsTwoValued ==
    stage.op \in Pipelines =>
        /\ TwoValued(stage.out.binary)
        /\ TwoValued(stage.out.written)

\* An image of more than two intensities whose written binary image has
\* both values.
C16_Witness ==
    /\ stage.op = "conservative"
    /\ Cardinality(Levels(stage.input)) > 2
    /\ Levels(stage.out.written) = {0, White}

\* C17 (as claimed): of the closed binary image, every connected foreground
\* region of fewer than 10 pixels is erased and every region of 10 pixels
\* or more, one of exactly 10 included, is left untouched.
C17_BlobsFilteredByPixelArea ==
    (stage.op = "ocr" /\ stage.out.returns = "temp_path") =>
        \A R \in Regions(stage.out.binary) :
            IF Cardinality(R) < MinBlobArea
            THEN \A p \in R : stage.out.written.px[p] = 0
            ELSE \A p \in R : stage.out.written.px[p] = stage.out.binary.px[p]

\* The columns of the solid horizontal run through pixel p, and the rows
\* of the solid vertical run through it.
RowRun(im, p) ==
    {x \in 1..im.w :
        \A k \in Min({x, p[1]})..Max({x, p[1]}) : im.px[<<k, p[2]>>] # 0}
ColRun(im, p) ==
    {y \in 1..im.h :
        \A k \in Min({y, p[2]})..Max({y, p[2]}) : im.px[<<p[1], k>>] # 0}

\* A run as long as the line-detecting element, and a run that reaches
\* the edge of the image.
Long(run) ==
    Cardinality(run) >= LineLength
AtEdge(run, side) ==
    1 \in run \/ side \in run

\* C18 (as claimed): of the image before line removal, every pixel of a
\* solid horizontal run at least 25 wide is removed, and every foreground
\* pixel of a run less than 25 wide is retained.
C18_WideRunsRemovedNarrowKept ==
    stage.op = "messaging" =>
        \A p \in Foreground(stage.out.binary) :
            IF Long(RowRun(stage.out.binary, p))
            THEN stage.out.written.px[p] = 0
            ELSE stage.out.written.px[p] = White

\* C18 (amended): every pixel of a solid run at least 25 long, along a row
\* or along a column, is removed; a foreground pixel whose runs along its
\* row and its column are both shorter than 25 and reach no edge of the
\* image is retained.
C18_LongRunsRemovedInnerShortKept ==
    stage.op = "messaging" =>
        \A p \in Foreground(stage.out.binary) :
            LET row == RowRun(stage.out.binary, p)
                col == ColRun(stage.out.binary, p)
            IN  /\ (Long(row) \/ Long(col)) => stage.out.written.px[p] = 0
                /\ ( /\ ~Long(row) /\ ~AtEdge(row, stage.out.binary.w)
                     /\ ~Long(col) /\ ~AtEdge(col, stage.out.binary.h) )
                      => stage.out.written.px[p] = White

\* A stroke shorter than 25 that is retained, next to a run narrower than
\* 25 that is removed.
C18_Witness ==
    /\ stage.op = "messaging"
    /\ \E p \in Foreground(stage.out.binary) :
          /\ ~Long(RowRun(stage.out.binary, p))
          /\ ~Long(ColRun(stage.out.binary, p))
          /\ stage.out.written.px[p] = White
    /\ \E q \in Foreground(stage.out.binary) :
          /\ ~Long(RowRun(stage.out.binary, q))
          /\ stage.out.written.px[q] = 0

\* The image the military-grade threshold is applied to, and its result.
Rotated ==
    deskew(stage.input, stage.raw)
Thresh ==
    ocr_binarize(stage.input, stage.raw)

\* C21 (as claimed): when the image handed to the military-grade threshold
\* has dark text on a lighter background, every text pixel is 0 and every
\* background pixel is 255 in the thresholded image.
C21_DarkTextBlackOnWhite ==
    ( /\ stage.op = "ocr"
      /\ stage.out.returns = "temp_path"
      /\ Cardinality(Levels(Rotated)) = 2 ) =>
        \A p \in Grid(Rotated) :
            Thresh.px[p] =
                IF Rotated.px[p] = Min(Levels(Rotated)) THEN 0 ELSE White

\* The two binarizations of the messaging path and their combination, of
\* the latest messaging transform.
Binary1 ==
    binary1(stage.input)
Binary2 ==
    binary2(stage.input, stage.blur)
Combined ==
    combined(stage.input, stage.blur)

\* C22: in the messaging path a pixel of the combined binarization is 255
\* exactly when the Otsu binarization or the adaptive binarization of the
\* enhanced image is 255 there, and 0 when neither is.
C22_CombinedIsEitherMethod ==
    stage.op = "messaging" =>
        LET b1 == Binary1
            b2 == Binary2
            c == Combined
        IN  \A p \in Grid(stage.input) :
                IF b1.px[p] = White \/ b2.px[p] = White
                THEN c.px[p] = White
                ELSE c.px[p] = 0

\* The two binarizations disagree on some pixel in each direction, and
\* some pixel is marked by neither.
C22_Witness ==
    /\ stage.op = "messaging"
    /\ LET b1 == Binary1
           b2 == Binary2
           c == Combined
       IN  /\ \E p \in Grid(stage.input) :
                 b1.px[p] = White /\ b2.px[p] = 0 /\ c.px[p] = White
           /\ \E p \in Grid(stage.input) :
                 b1.px[p] = 0 /\ b2.px[p] = White /\ c.px[p] = White
           /\ \E p \in Grid(stage.input) :
                 b1.px[p] = 0 /\ b2.px[p] = 0 /\ c.px[p] = 0

\* C23 (as claimed): each of the four pipelines works on an image it
\* loaded itself; no image object is used by two pipelines.
C23_EachLoadsOwnCopy ==
    \A i \in Methods : workers.pc[i] # "imread" => workers.from[i] = i

\* C23 (amended): methods 1, 2 and 3 each work on an image they loaded
\* themselves; method 4 works on the image object method 3 loaded, so it
\* sees what method 3 saw and is skipped when that load failed.
C23_ThreeLoadsOneShared ==
    \A i \in Methods :
        workers.pc[i] # "imread" =>
            IF i = 4
            THEN /\ workers.from[4] = 3
                 /\ workers.img[4] = workers.img[3]
                 /\ workers.img[3] = "none" =>
                        (workers.pc[4] = "done" /\ workers.out[4] = "skipped")
            ELSE workers.from[i] = i

\* Method 4 wrote its artifact from the image method 3 loaded.
C23_Witness ==
    /\ workers.pc[4] = "done"
    /\ workers.out[4] = "ok"
    /\ workers.from[4] = 3
    /\ workers.from[3] = 3

\* C24: in the messaging path the image before line removal is the
\* combined binarization opened with the 2x2 element and then closed with
\* the 5x5 element; both line masks are openings of that closed image, and
\* the image written is the closed image with both masks subtracted, in
\* either order.
C24_FixedOrderMasksFromClosed ==
    stage.op = "messaging" =>
        LET closed == stage.out.binary
            h == horizontal_lines(closed)
            v == vertical_lines(closed)
        IN  /\ closed = morph_close(morph_open(Combined, 2, 2), 5, 5)
            /\ stage.out.written = subtract(subtract(closed, h), v)
            /\ stage.out.written = subtract(subtract(closed, v), h)

\* A closed image with a horizontal and a vertical ruling that cross: the
\* two masks overlap and neither contains the other.
C24_Witness ==
    /\ stage.op = "messaging"
    /\ LET closed == stage.out.binary
           h == horizontal_lines(closed)
           v == vertical_lines(closed)
       IN  /\ \E p \in Grid(closed) : h.px[p] = White /\ v.px[p] = White
           /\ \E p \in Grid(closed) : h.px[p] = White /\ v.px[p] = 0
           /\ \E p \in Grid(closed) : h.px[p] = 0 /\ v.px[p] = White

\* C25 (as claimed): every file a generator call wrote is the path of a
\* candidate in the sequence the call returned.
C25_WrittenAreReturned ==
    last.op = "multi" => last.wrote \subseteq Paths(last.ret)

\* The functions of C26, and a step that is a call of one of them that
\* returned the source path.
SourceReturning ==
    {"ocr", "messaging"}
ReturnedSource ==
    /\ ops' = ops + 1
    /\ last'.op \in SourceReturning
    /\ last'.ret[1][2] = last'.src

\* C26: a call of preprocess_image_for_ocr or of
\* preprocess_messaging_app_screenshot that returns the source path wrote
\* no file and left every file as it was.
C26_SourceReturnWritesNothing ==
    [][ReturnedSource => (fs' = fs /\ last'.wrote = {})]_vars

\* A messaging call on a readable source that returned the source path
\* after a transform raised, in a directory that allows writing.
C26_Witness ==
    /\ last.op = "messaging"
    /\ last.ret[1][2] = last.src
    /\ Load(fs, last.src) = "image"
    /\ ~readonly

\* A step that is a call of cleanup_temp_files, and the sibling names of
\* that call.
CleanupStep ==
    /\ ops' = ops + 1
    /\ last'.op = "cleanup"
Siblings ==
    SeqRange(method_files[last'.src])

\* C27: cleanup_temp_files(temp, source) changes no file other than temp
\* and the three sibling names; when temp is source or temp does not exist
\* it changes and deletes nothing; when temp exists, is not source and is
\* not removed by the call, the siblings are left as they were.
C27_CleanupFrame ==
    [][CleanupStep =>
          /\ \A p \in AllPaths :
                fs'[p] # fs[p] => p \in {last'.arg} \cup Siblings
          /\ last'.deleted \subseteq {last'.arg} \cup Siblings
          /\ (last'.arg = last'.src \/ ~exists(fs, last'.arg)) =>
                (fs' = fs /\ last'.deleted = {})
          /\ (exists(fs, last'.arg) /\ last'.arg \notin last'.deleted) =>
                /\ last'.deleted = {}
                /\ \A p \in Siblings \ {last'.arg} : fs'[p] = fs[p]
      ]_vars

\* A cleanup whose removal of the temp file failed in a directory that
\* allows removals, with a sibling on disk.
C27_Witness ==
    /\ last.op = "cleanup"
    /\ last.existed
    /\ last.arg # last.src
    /\ last.warned
    /\ last.deleted = {}
    /\ ~readonly
    /\ \E p \in SeqRange(method_files[last.src]) : exists(fs, p)

\* C28 (as claimed): no preprocessing call writes its temp artifact onto
\* the path of a source image of the batch.
C28_NoWriteOntoSource ==
    last.op \in Producing => last.wrote \cap Sources = {}

====
